---- MODULE Spec2Model ----
(***************************************************************************)
(* The inquiry flow controller of src/src/App.tsx (component App) together *)
(* with the speech-recognition hook it consumes (useSpeechRecognition,     *)
(* whose source is not part of src/ and is modelled from spec.md, 4.1).    *)
(*                                                                         *)
(* A text is a sequence of one-character strings; " " is the only white    *)
(* space.  A literal of the program (a question, a placeholder, a template *)
(* fragment) is a text of a single element holding the whole literal.      *)
(*                                                                         *)
(* Handlers run to completion (one event loop).  Every action models a     *)
(* handler together with the render and the transcript sync effect that    *)
(* follow it.  The handlers of a screen are invocable whenever that screen *)
(* is rendered, whatever the answer buffer holds: each handler's own       *)
(* guards decide what it does.                                             *)
(***************************************************************************)
EXTENDS Integers, Sequences, FiniteSets, TLC

VARIABLES
    screen,                 \* App.tsx:39
    entries,                \* App.tsx:40
    currentAnswer,          \* App.tsx:41
    currentQuestionIndex,   \* App.tsx:42
    depth,                  \* App.tsx:43
    output,                 \* App.tsx:44
    transcript,             \* hook: published transcript
    isListening,            \* hook: listening flag
    speechError,            \* hook: observable error value
    prefixText,             \* hook: text existing before the recording session
    results,                \* the engine's hypothesis list, as its last event delivered it
    engine,                 \* the recognition engine: "idle", "active", "stopping"
    requests,               \* handleProcess invocations awaiting fetch / response.json()
    lastOp,                 \* name of the handler or callback that ran last
    staleSession,           \* the engine's session began before the buffer was last
                            \* cleared by a commit, a start or a reset
    apiRequest,             \* api/process.ts: the request handed to handler
    apiEntries,             \* api/process.ts: handler's entries after normalization
    apiResponse             \* api/process.ts: the response handler returned

vars == <<screen, entries, currentAnswer, currentQuestionIndex, depth, output,
          transcript, isListening, speechError, prefixText, engine, requests, lastOp,
          staleSession, results, apiRequest, apiEntries, apiResponse>>

apiVars == <<apiRequest, apiEntries, apiResponse>>

flowVars == <<screen, entries, currentAnswer, currentQuestionIndex, depth>>

(***************************************************************************)
(* Bounds of the model.                                                    *)
(***************************************************************************)
MaxEntries == 5     \* entries are committed only while fewer than this many exist
MaxLen == 3         \* longest transcript a recognition event may publish

(***************************************************************************)
(* Texts.                                                                  *)
(***************************************************************************)
Empty == <<>>

RECURSIVE TrimStart(_)
TrimStart(s) ==
    IF s = <<>> THEN s
    ELSE IF Head(s) = " " THEN TrimStart(Tail(s)) ELSE s

RECURSIVE TrimEnd(_)
TrimEnd(s) ==
    IF s = <<>> THEN s
    ELSE IF s[Len(s)] = " " THEN TrimEnd(SubSeq(s, 1, Len(s) - 1)) ELSE s

\* String.prototype.trim
Trim(s) == TrimEnd(TrimStart(s))

\* what the user may type into the textarea (App.tsx:277)
TypedTexts == { <<>>, <<" ">>, <<" ", "a">> }

(***************************************************************************)
(* Questions.                                                              *)
(***************************************************************************)
INITIAL_QUESTIONS ==
    << <<"What do you feel right now?">>,
       <<"Where do you feel it in your body?">>,
       <<"What does this feeling need from you?">> >>

DEEPENING_QUESTIONS ==
    << <<"What's underneath that?">>,
       <<"If this feeling could speak, what would it say?">>,
       <<"What are you afraid might happen?">>,
       <<"What do you really need right now?">>,
       <<"What would help you feel safe?">>,
       <<"Is there something you haven't allowed yourself to feel?">> >>

\* variant: the pool is read from its first question, without the depth offset
getCurrentQuestionFromPoolStart ==
    IF depth = 0 /\ currentQuestionIndex < Len(INITIAL_QUESTIONS)
    THEN INITIAL_QUESTIONS[currentQuestionIndex + 1]
    ELSE DEEPENING_QUESTIONS[(currentQuestionIndex % Len(DEEPENING_QUESTIONS)) + 1]

getCurrentQuestion ==
    IF depth = 0 /\ currentQuestionIndex < Len(INITIAL_QUESTIONS)
    THEN INITIAL_QUESTIONS[currentQuestionIndex + 1]
    ELSE DEEPENING_QUESTIONS[((currentQuestionIndex + depth) % Len(DEEPENING_QUESTIONS)) + 1]

(***************************************************************************)
(* The speech-recognition hook (spec.md 3 and 4.1).                        *)
(***************************************************************************)
Hyp(t, f) == [text |-> t, isFinal |-> f]

\* the complete hypothesis lists a recognition event may deliver
HypLists ==
    { << Hyp(<<"a">>, FALSE) >>,
      << Hyp(<<"a">>, TRUE) >>,
      << Hyp(<<"a">>, TRUE), Hyp(<<"a">>, FALSE) >> }

ErrorCodes == { "not-allowed", "network" }

\* every entry marked final, each followed by one space
RECURSIVE SessionFinalText(_)
SessionFinalText(list) ==
    IF list = <<>> THEN Empty
    ELSE (IF Head(list).isFinal THEN Head(list).text \o <<" ">> ELSE Empty)
         \o SessionFinalText(Tail(list))

\* every entry not marked final
RECURSIVE InterimText(_)
InterimText(list) ==
    IF list = <<>> THEN Empty
    ELSE (IF Head(list).isFinal THEN Empty ELSE Head(list).text)
         \o InterimText(Tail(list))

Separator(prefix, final, interim) ==
    IF prefix # Empty /\ (final # Empty \/ interim # Empty) THEN <<" ">> ELSE Empty

\* variant: a delta merge that appends the event's text to the published transcript
ComposeTranscriptDeltaMerge(prefix, final, interim) ==
    Trim(transcript \o Separator(transcript, final, interim) \o final \o interim)

ComposeTranscript(prefix, final, interim) ==
    Trim(prefix \o Separator(prefix, final, interim) \o final \o interim)

\* stop(): asks the engine to end the session; the transcript is retained
stopListening == engine' = IF engine = "active" THEN "stopping" ELSE engine

resetTranscript == prefixText' = Empty /\ transcript' = Empty

\* start(existingText); throws: the engine's start() throws synchronously
startListening(existingText, throws) ==
    IF isListening
    THEN /\ throws = FALSE
         /\ UNCHANGED <<prefixText, transcript, speechError, engine, isListening, results>>
    ELSE /\ prefixText' = Trim(existingText)
         /\ transcript' = Trim(existingText)
         /\ speechError' = "none"
         /\ engine # "idle" => throws
         /\ IF throws
            THEN UNCHANGED <<engine, isListening, results>>
            ELSE engine' = "active" /\ isListening' = TRUE /\ results' = <<>>

\* variant: the effect copies the transcript without testing that it is non-empty
SyncEffectUnguarded(newScreen, newTranscript, answer) ==
    IF (newTranscript # transcript \/ newScreen # screen) /\ newScreen = "inquiry"
    THEN newTranscript
    ELSE answer

(***************************************************************************)
(* The transcript sync effect, App.tsx:66-70: it runs after a render in    *)
(* which transcript or screen changed.  answer is the buffer as the        *)
(* handler left it.                                                        *)
(***************************************************************************)
SyncEffect(newScreen, newTranscript, answer) ==
    IF (newTranscript # transcript \/ newScreen # screen)
       /\ newTranscript # Empty /\ newScreen = "inquiry"
    THEN newTranscript
    ELSE answer

(***************************************************************************)
(* Summarization responses (App.tsx:143-155).                              *)
(***************************************************************************)
JsonNull == [type |-> "null"]

FullResult ==
    [type |-> "object",
     coreFeeling |-> <<"r1">>, bodyWisdom |-> <<"r2">>, underlyingNeed |-> <<"r3">>,
     integration |-> <<"r4">>, shift |-> <<"r5">>]

ThreeFieldResult ==
    [type |-> "object", feeling |-> <<"r1">>, location |-> <<"r2">>, need |-> <<"r3">>]

\* a response body: text that response.json() parses to value, or rejects
Body(p, v) == [parses |-> p, value |-> v]

NoBody == Body(FALSE, JsonNull)

Bodies ==
    { Body(TRUE, FullResult), Body(TRUE, ThreeFieldResult), Body(TRUE, JsonNull),
      Body(FALSE, JsonNull) }

\* JavaScript truthiness of a parsed JSON value (App.tsx:367)
Truthy(v) == v.type # "null"

(***************************************************************************)
(* The local fallback, App.tsx:159-172.                                    *)
(***************************************************************************)
Answers(es) == [i \in 1..Len(es) |-> es[i].answer]

\* seq[i] || placeholder, with i counted from 0
OrElse(seq, i, placeholder) ==
    IF i + 1 <= Len(seq) /\ seq[i + 1] # Empty THEN seq[i + 1] ELSE placeholder

MovedDeeper ==
    <<"By staying with your experience, you moved from the surface to something deeper.">>

ConsiderReturning ==
    <<"You touched something real. Consider returning to explore further.">>

\* variant: off by one in the comparison with the number of initial questions
FallbackShiftOffByOne(es) == IF Len(es) >= 3 THEN MovedDeeper ELSE ConsiderReturning

FallbackShift(es) == IF Len(es) > 3 THEN MovedDeeper ELSE ConsiderReturning

\* variant: the first deeper answer is taken instead of the last
FallbackUnderlyingNeedFirst(feelings, deeper) ==
    IF Len(deeper) > 0
    THEN <<"Beneath the surface: ">> \o deeper[1]
    ELSE OrElse(feelings, 2, <<"A need for presence.">>)

FallbackUnderlyingNeed(feelings, deeper) ==
    IF Len(deeper) > 0
    THEN <<"Beneath the surface: ">> \o deeper[Len(deeper)]
    ELSE OrElse(feelings, 2, <<"A need for presence.">>)

Fallback(es) ==
    LET feelings == Answers(SelectSeq(es, LAMBDA e : e.depth = 0))
        deeper == Answers(SelectSeq(es, LAMBDA e : e.depth > 0))
    IN  [type |-> "object",
         coreFeeling |-> OrElse(feelings, 0, <<"Something important surfaced.">>),
         bodyWisdom |-> OrElse(feelings, 1, <<"Your body is holding this.">>),
         underlyingNeed |-> FallbackUnderlyingNeed(feelings, deeper),
         integration |-> <<"You explored ", ToString(Len(es)),
                           " layers of feeling. The thread connecting them points toward what truly matters to you right now.">>,
         shift |-> FallbackShift(es)]

(***************************************************************************)
(* Initial state: useState initial values, App.tsx:39-44.                  *)
(***************************************************************************)
\* api/process.ts is idle while the component runs: no request, no response.
NoRequest == [method |-> "none"]
NoResponse == [status |-> "none"]

Init ==
    /\ screen = "welcome"
    /\ entries = <<>>
    /\ currentAnswer = Empty
    /\ currentQuestionIndex = 0
    /\ depth = 0
    /\ output = JsonNull
    /\ transcript = Empty
    /\ isListening = FALSE
    /\ speechError = "none"
    /\ prefixText = Empty
    /\ engine = "idle"
    /\ requests = <<>>
    /\ lastOp = "init"
    /\ staleSession = FALSE
    /\ results = <<>>
    /\ apiRequest = NoRequest
    /\ apiEntries = <<>>
    /\ apiResponse = NoResponse

Entry(q, a, d) == [question |-> q, answer |-> a, depth |-> d]

\* the render that binds handleStart (App.tsx:197, 216)
WelcomeRendered == screen = "welcome"

\* variant: the inquiry buttons stay mounted while the request is outstanding
InquiryRenderedWhileProcessing == screen \in {"inquiry", "processing"}

\* the render that binds the inquiry handlers (App.tsx:227)
InquiryRendered == screen = "inquiry"

\* the render that binds handleReset (App.tsx:367, 418)
OutputRendered == screen = "output" /\ Truthy(output)

\* the inquiry render's locals (App.tsx:229-230)
isDeepening == depth > 0

\* variant: the deepening choice is offered on every question
showDeeperOptionOnEveryQuestion == isDeepening \/ depth = 0

showDeeperOption ==
    isDeepening \/ (depth = 0 /\ currentQuestionIndex = Len(INITIAL_QUESTIONS) - 1)

\* the deepening choice is offered: both buttons of App.tsx:313-330 are rendered
DeeperChoiceOffered == showDeeperOption /\ Trim(currentAnswer) # Empty

\* the single NEXT button is rendered and not disabled (App.tsx:331-345)
NextOffered == ~DeeperChoiceOffered /\ Trim(currentAnswer) # Empty

(***************************************************************************)
(* Flow controller handlers.                                               *)
(***************************************************************************)
handleStart ==
    /\ WelcomeRendered
    /\ screen' = "inquiry"
    /\ entries' = <<>>
    /\ currentQuestionIndex' = 0
    /\ depth' = 0
    /\ resetTranscript
    /\ currentAnswer' = SyncEffect("inquiry", Empty, Empty)
    /\ lastOp' = "handleStart"
    /\ staleSession' = (engine # "idle")
    /\ UNCHANGED <<output, isListening, speechError, engine, requests>>
    /\ UNCHANGED <<results, apiVars>>

\* variant: the guard tests the untrimmed buffer
NextBlockedUntrimmed == currentAnswer = Empty

\* variant: the guard is missing
NextBlockedNever == FALSE

\* App.tsx:84: if (!currentAnswer.trim()) return
NextBlocked == Trim(currentAnswer) = Empty

\* variant: off by one in the comparison with the list length
StillInInitialQuestionsOffByOne ==
    depth = 0 /\ currentQuestionIndex < Len(INITIAL_QUESTIONS)

\* App.tsx:96
StillInInitialQuestions ==
    depth = 0 /\ currentQuestionIndex < Len(INITIAL_QUESTIONS) - 1

\* App.tsx:87-91 and 126-130
newEntry == Entry(getCurrentQuestion, Trim(currentAnswer), depth)

\* variant: advancing within the deepening pool falls back to depth 0
NextBodyRestartsAtSurface(op) ==
    /\ InquiryRendered
    /\ stopListening
    /\ lastOp' = op
    /\ IF NextBlocked
       THEN UNCHANGED <<screen, entries, currentAnswer, currentQuestionIndex, depth,
                        transcript, prefixText, staleSession>>
       ELSE /\ Len(entries) < MaxEntries
            /\ entries' = Append(entries, newEntry)
            /\ IF StillInInitialQuestions
               THEN /\ currentQuestionIndex' = currentQuestionIndex + 1
                    /\ depth' = depth
               ELSE IF depth = 0
               THEN /\ depth' = 1
                    /\ currentQuestionIndex' = 0
               ELSE /\ currentQuestionIndex' = currentQuestionIndex + 1
                    /\ depth' = 0
            /\ resetTranscript
            /\ currentAnswer' = SyncEffect(screen, Empty, Empty)
            /\ staleSession' = (engine # "idle")
            /\ UNCHANGED screen
    /\ UNCHANGED <<output, isListening, speechError, requests>>
    /\ UNCHANGED <<results, apiVars>>

\* the body of handleNext, App.tsx:81-113; op is the handler invoked
NextBody(op) ==
    /\ InquiryRendered
    /\ stopListening
    /\ lastOp' = op
    /\ IF NextBlocked
       THEN UNCHANGED <<screen, entries, currentAnswer, currentQuestionIndex, depth,
                        transcript, prefixText, staleSession>>
       ELSE /\ Len(entries) < MaxEntries
            /\ entries' = Append(entries, newEntry)
            /\ IF StillInInitialQuestions
               THEN /\ currentQuestionIndex' = currentQuestionIndex + 1
                    /\ depth' = depth
               ELSE IF depth = 0
               THEN /\ depth' = 1
                    /\ currentQuestionIndex' = 0
               ELSE /\ currentQuestionIndex' = currentQuestionIndex + 1
                    /\ depth' = depth
            /\ resetTranscript
            /\ currentAnswer' = SyncEffect(screen, Empty, Empty)
            /\ staleSession' = (engine # "idle")
            /\ UNCHANGED screen
    /\ UNCHANGED <<output, isListening, speechError, requests>>
    /\ UNCHANGED <<results, apiVars>>

handleNext == NextBody("handleNext")

\* variant: every Go deeper descends one more level instead of advancing in the pool
handleGoDeeperRaisesDepth ==
    /\ InquiryRendered
    /\ stopListening
    /\ lastOp' = "handleGoDeeper"
    /\ IF NextBlocked
       THEN UNCHANGED <<screen, entries, currentAnswer, currentQuestionIndex, depth,
                        transcript, prefixText, staleSession>>
       ELSE /\ Len(entries) < MaxEntries
            /\ entries' = Append(entries, newEntry)
            /\ IF StillInInitialQuestions
               THEN /\ currentQuestionIndex' = currentQuestionIndex + 1
                    /\ depth' = depth
               ELSE IF depth = 0
               THEN /\ depth' = 1
                    /\ currentQuestionIndex' = 0
               ELSE /\ currentQuestionIndex' = 0
                    /\ depth' = depth + 1
            /\ resetTranscript
            /\ currentAnswer' = SyncEffect(screen, Empty, Empty)
            /\ staleSession' = (engine # "idle")
            /\ UNCHANGED screen
    /\ UNCHANGED <<output, isListening, speechError, requests>>
    /\ UNCHANGED <<results, apiVars>>

\* App.tsx:115-118
handleGoDeeper == NextBody("handleGoDeeper")

\* variant: the trailing buffer is tested and stored untrimmed
finalEntriesUntrimmed ==
    IF currentAnswer # Empty
    THEN Append(entries, Entry(getCurrentQuestion, currentAnswer, depth))
    ELSE entries

\* App.tsx:124-133
finalEntries ==
    IF Trim(currentAnswer) # Empty THEN Append(entries, newEntry) ELSE entries

\* handleComplete and the synchronous part of handleProcess, App.tsx:120-147
handleComplete ==
    /\ InquiryRendered
    /\ stopListening
    /\ Len(finalEntries) <= MaxEntries
    /\ entries' = finalEntries
    /\ requests' = Append(requests,
           [entriesToProcess |-> finalEntries, stage |-> "fetch", body |-> NoBody])
    /\ screen' = "processing"
    /\ currentAnswer' = SyncEffect("processing", transcript, currentAnswer)
    /\ lastOp' = "handleComplete"
    /\ UNCHANGED <<currentQuestionIndex, depth, output, transcript, isListening,
                   speechError, prefixText, staleSession>>
    /\ UNCHANGED <<results, apiVars>>

RemoveAt(seq, i) == SubSeq(seq, 1, i - 1) \o SubSeq(seq, i + 1, Len(seq))

\* variant: a failed request returns to the inquiry screen instead of showing a result
FallbackPublishedReturnsToInquiry(i) ==
    /\ output' = Fallback(requests[i].entriesToProcess)
    /\ screen' = "inquiry"
    /\ requests' = RemoveAt(requests, i)
    /\ currentAnswer' = SyncEffect("inquiry", transcript, currentAnswer)

\* the catch block of handleProcess, App.tsx:156-174, for request i
FallbackPublished(i) ==
    /\ output' = Fallback(requests[i].entriesToProcess)
    /\ screen' = "output"
    /\ requests' = RemoveAt(requests, i)
    /\ currentAnswer' = SyncEffect("output", transcript, currentAnswer)

\* fetch rejects (network error), App.tsx:143
FetchRejects ==
    \E i \in 1..Len(requests) :
        /\ requests[i].stage = "fetch"
        /\ FallbackPublished(i)
        /\ lastOp' = "fetchRejected"
        /\ UNCHANGED <<entries, currentQuestionIndex, depth, transcript, isListening,
                       speechError, prefixText, engine, staleSession>>
        /\ UNCHANGED <<results, apiVars>>

\* fetch resolves with a response of status ok or not, App.tsx:143-151
FetchResolves(ok, b) ==
    \E i \in 1..Len(requests) :
        /\ requests[i].stage = "fetch"
        /\ IF ~ok
           THEN FallbackPublished(i)
           ELSE /\ requests' = [requests EXCEPT ![i].stage = "json", ![i].body = b]
                /\ UNCHANGED <<output, screen, currentAnswer>>
        /\ lastOp' = IF ok THEN "fetchResolved" ELSE "fetchNotOk"
        /\ UNCHANGED <<entries, currentQuestionIndex, depth, transcript, isListening,
                       speechError, prefixText, engine, staleSession>>
        /\ UNCHANGED <<results, apiVars>>

\* variant: the parsed body is discarded and the local fallback published
JsonSettlesPrefersFallback ==
    \E i \in 1..Len(requests) :
        /\ requests[i].stage = "json"
        /\ IF requests[i].body.parses
           THEN /\ output' = Fallback(requests[i].entriesToProcess)
                /\ screen' = "output"
                /\ requests' = RemoveAt(requests, i)
                /\ currentAnswer' = SyncEffect("output", transcript, currentAnswer)
           ELSE FallbackPublished(i)
        /\ lastOp' = IF requests[i].body.parses THEN "jsonParsed" ELSE "jsonRejected"
        /\ UNCHANGED <<entries, currentQuestionIndex, depth, transcript, isListening,
                       speechError, prefixText, engine, staleSession>>
        /\ UNCHANGED <<results, apiVars>>

\* response.json() settles, App.tsx:153-155
JsonSettles ==
    \E i \in 1..Len(requests) :
        /\ requests[i].stage = "json"
        /\ IF requests[i].body.parses
           THEN /\ output' = requests[i].body.value
                /\ screen' = "output"
                /\ requests' = RemoveAt(requests, i)
                /\ currentAnswer' = SyncEffect("output", transcript, currentAnswer)
           ELSE FallbackPublished(i)
        /\ lastOp' = IF requests[i].body.parses THEN "jsonParsed" ELSE "jsonRejected"
        /\ UNCHANGED <<entries, currentQuestionIndex, depth, transcript, isListening,
                       speechError, prefixText, engine, staleSession>>
        /\ UNCHANGED <<results, apiVars>>

\* variant: the reset forgets setCurrentAnswer('')
handleResetKeepsAnswer ==
    /\ OutputRendered
    /\ screen' = "welcome"
    /\ entries' = <<>>
    /\ currentQuestionIndex' = 0
    /\ depth' = 0
    /\ output' = JsonNull
    /\ resetTranscript
    /\ currentAnswer' = SyncEffect("welcome", Empty, currentAnswer)
    /\ lastOp' = "handleReset"
    /\ staleSession' = (engine # "idle")
    /\ UNCHANGED <<isListening, speechError, engine, requests>>
    /\ UNCHANGED <<results, apiVars>>

handleReset ==
    /\ OutputRendered
    /\ screen' = "welcome"
    /\ entries' = <<>>
    /\ currentQuestionIndex' = 0
    /\ depth' = 0
    /\ output' = JsonNull
    /\ resetTranscript
    /\ currentAnswer' = SyncEffect("welcome", Empty, Empty)
    /\ lastOp' = "handleReset"
    /\ staleSession' = (engine # "idle")
    /\ UNCHANGED <<isListening, speechError, engine, requests>>
    /\ UNCHANGED <<results, apiVars>>

\* the textarea's onChange, App.tsx:277
onChange(text) ==
    /\ InquiryRendered
    /\ currentAnswer' = text
    /\ lastOp' = "onChange"
    /\ UNCHANGED <<screen, entries, currentQuestionIndex, depth, output, transcript,
                   isListening, speechError, prefixText, engine, requests, staleSession>>
    /\ UNCHANGED <<results, apiVars>>

\* App.tsx:187-194
toggleRecording(throws) ==
    /\ InquiryRendered
    /\ lastOp' = "toggleRecording"
    /\ IF isListening
       THEN /\ stopListening
            /\ throws = FALSE
            /\ UNCHANGED <<currentAnswer, transcript, prefixText, isListening, speechError,
                            staleSession, results>>
       ELSE /\ startListening(currentAnswer, throws)
            /\ currentAnswer' = SyncEffect(screen, transcript', currentAnswer)
            /\ staleSession' = (throws /\ staleSession)
    /\ UNCHANGED <<screen, entries, currentQuestionIndex, depth, output, requests>>
    /\ UNCHANGED apiVars

(***************************************************************************)
(* Engine callbacks of the hook (spec.md 4.1, event processing).           *)
(***************************************************************************)
onresult(list) ==
    /\ engine \in {"active", "stopping"}
    /\ LET t == ComposeTranscript(prefixText, SessionFinalText(list), InterimText(list))
       IN  /\ Len(t) <= MaxLen
           /\ transcript' = t
           /\ currentAnswer' = SyncEffect(screen, t, currentAnswer)
    /\ results' = list
    /\ lastOp' = "onresult"
    /\ UNCHANGED <<screen, entries, currentQuestionIndex, depth, output, isListening,
                   speechError, prefixText, engine, requests, staleSession>>
    /\ UNCHANGED apiVars

\* variant: the error handler also clears the published transcript
onerrorClearsTranscript(code) ==
    /\ engine = "active"
    /\ speechError' = code
    /\ isListening' = FALSE
    /\ engine' = "stopping"
    /\ transcript' = Empty
    /\ lastOp' = "onerror"
    /\ UNCHANGED <<screen, entries, currentAnswer, currentQuestionIndex, depth, output,
                   prefixText, requests, staleSession>>
    /\ UNCHANGED <<results, apiVars>>

onerror(code) ==
    /\ engine = "active"
    /\ speechError' = code
    /\ isListening' = FALSE
    /\ engine' = "stopping"
    /\ lastOp' = "onerror"
    /\ UNCHANGED <<screen, entries, currentAnswer, currentQuestionIndex, depth, output,
                   transcript, prefixText, requests, staleSession>>
    /\ UNCHANGED <<results, apiVars>>

onend ==
    /\ engine \in {"active", "stopping"}
    /\ isListening' = FALSE
    /\ engine' = "idle"
    /\ lastOp' = "onend"
    /\ results' = <<>>
    /\ staleSession' = FALSE
    /\ UNCHANGED <<screen, entries, currentAnswer, currentQuestionIndex, depth, output,
                   transcript, speechError, prefixText, requests>>
    /\ UNCHANGED apiVars

Next ==
    \/ handleStart
    \/ handleNext
    \/ handleGoDeeper
    \/ handleComplete
    \/ FetchRejects
    \/ \E ok \in BOOLEAN, b \in Bodies : FetchResolves(ok, b)
    \/ JsonSettles
    \/ handleReset
    \/ \E text \in TypedTexts : onChange(text)
    \/ \E throws \in BOOLEAN : toggleRecording(throws)
    \/ \E list \in HypLists : onresult(list)
    \/ \E code \in ErrorCodes : onerror(code)
    \/ onend

Spec == Init /\ [][Next]_vars

(***************************************************************************)
(* The component as its user drives it: an inquiry handler runs only when  *)
(* the button bound to it is rendered and enabled (App.tsx:311-347).       *)
(***************************************************************************)
clickNext == NextOffered /\ handleNext

clickGoDeeper == DeeperChoiceOffered /\ handleGoDeeper

clickImReady == DeeperChoiceOffered /\ handleComplete

NextUI ==
    \/ handleStart
    \/ clickNext
    \/ clickGoDeeper
    \/ clickImReady
    \/ FetchRejects
    \/ \E ok \in BOOLEAN, b \in Bodies : FetchResolves(ok, b)
    \/ JsonSettles
    \/ handleReset
    \/ \E text \in TypedTexts : onChange(text)
    \/ \E throws \in BOOLEAN : toggleRecording(throws)
    \/ \E list \in HypLists : onresult(list)
    \/ \E code \in ErrorCodes : onerror(code)
    \/ onend

SpecUI == Init /\ [][NextUI]_vars

(***************************************************************************)
(* api/process.ts: the summarization endpoint.  A request is a method, a   *)
(* body text and the deployment's CLAUDE_API_KEY setting; an optional JSON *)
(* member is a record that says whether it is present.                     *)
(***************************************************************************)
Missing == [present |-> FALSE, text |-> Empty]
Given(t) == [present |-> TRUE, text |-> t]

\* JavaScript truthiness of an optional string member
TruthyText(v) == v.present /\ v.text # Empty

\* v || ''
TextOrEmpty(v) == IF TruthyText(v) THEN v.text ELSE Empty

NoEntries == [present |-> FALSE, list |-> <<>>]
GivenEntries(es) == [present |-> TRUE, list |-> es]

\* the entries arrays a request body may carry; the last one is [null]
ModernEntryLists ==
    { <<>>,
      << JsonNull >>,
      << Entry(INITIAL_QUESTIONS[1], <<"x">>, 0) >>,
      << Entry(INITIAL_QUESTIONS[1], <<"x">>, 0), Entry(INITIAL_QUESTIONS[2], <<"y">>, 0),
         Entry(INITIAL_QUESTIONS[3], <<"z">>, 0), Entry(DEEPENING_QUESTIONS[2], <<"d">>, 1) >> }

\* values of a legacy member: absent, empty, one blank, a word
LegacyValues(word) == { Missing, Given(Empty), Given(<<" ">>), Given(<<word>>) }

RequestBodyObject(es, feel, where, needs) ==
    [type |-> "object", entries |-> es,
     whatYouFeel |-> feel, whereYouFeelIt |-> where, whatItNeeds |-> needs]

RequestBodies ==
    { Body(FALSE, JsonNull), Body(TRUE, JsonNull) } \cup
    { Body(TRUE, RequestBodyObject(es, feel, where, needs)) :
        es \in {NoEntries} \cup { GivenEntries(l) : l \in ModernEntryLists },
        feel \in LegacyValues("f"), where \in LegacyValues("w"), needs \in LegacyValues("n") }

ApiRequests ==
    [method : {"POST", "GET"}, body : RequestBodies, CLAUDE_API_KEY : BOOLEAN]

\* what the call to the third-party service produces: fetch rejects, a
\* non-ok status, a reply without content[0].text, or a text that is JSON
\* (payload.parses) or not, bare or wrapped in markdown fences
UpstreamReplies ==
    { [kind |-> "rejects"], [kind |-> "notOk"], [kind |-> "noContent"] } \cup
    { [kind |-> "text", fence |-> f, payload |-> b] :
        f \in {"none", "pair", "single"},
        b \in { Body(TRUE, FullResult), Body(TRUE, JsonNull), Body(FALSE, JsonNull) } }

\* body.entries || []
EntriesOrEmpty(b) == IF b.entries.present THEN b.entries.list ELSE <<>>

\* process.ts:35-39 without the filter
legacyEntriesUnfiltered(b) ==
    << Entry(<<"What do you feel?">>, TextOrEmpty(b.whatYouFeel), 0),
       Entry(<<"Where do you feel it?">>, TextOrEmpty(b.whereYouFeelIt), 0),
       Entry(<<"What does it need?">>, TextOrEmpty(b.whatItNeeds), 0) >>

KeepsAnswer(e) == e.answer # Empty

\* process.ts:35-39
legacyEntries(b) == SelectSeq(legacyEntriesUnfiltered(b), KeepsAnswer)

\* process.ts:31-40
normalizedEntries(b) ==
    IF Len(EntriesOrEmpty(b)) = 0
       /\ (TruthyText(b.whatYouFeel) \/ TruthyText(b.whereYouFeelIt) \/ TruthyText(b.whatItNeeds))
    THEN legacyEntries(b)
    ELSE EntriesOrEmpty(b)

AtDepthZero(e) == e.depth = 0
Deeper(e) == e.depth > 0

\* process.ts:44-60: the reply built without a credential
DemoResponse(es) ==
    LET initial == SelectSeq(es, AtDepthZero)
        deeper == SelectSeq(es, Deeper)
    IN  [status |-> 200,
         body |-> [type |-> "object",
                   coreFeeling |-> OrElse(Answers(initial), 0, <<"Something you shared.">>),
                   bodyWisdom |-> OrElse(Answers(initial), 1, <<"Present in your body.">>),
                   underlyingNeed |->
                       IF Len(deeper) > 0 THEN deeper[Len(deeper)].answer
                       ELSE OrElse(Answers(initial), 2, <<"What you need.">>),
                   integration |->
                       <<"You shared ", ToString(Len(es)),
                         " reflections. There's a thread connecting what you feel to what you need.">>,
                   shift |-> <<"Taking time to notice your experience is itself a form of self-care.">>]]

\* variant: the catch block answers with a server error
GenericResponseServerError ==
    [status |-> 500,
     body |-> [type |-> "object",
               coreFeeling |-> <<"Something important surfaced for you today.">>,
               bodyWisdom |-> <<"Your body is holding wisdom about this.">>,
               underlyingNeed |-> <<"A part of you is asking for attention.">>,
               integration |->
                   <<"By pausing to notice your experience, you've already begun the work of integration.">>,
               shift |->
                   <<"Consider sitting with what came up. Sometimes the noticing itself is the healing.">>]]

\* process.ts:154-166: the reply of the catch block
GenericResponse ==
    [status |-> 200,
     body |-> [type |-> "object",
               coreFeeling |-> <<"Something important surfaced for you today.">>,
               bodyWisdom |-> <<"Your body is holding wisdom about this.">>,
               underlyingNeed |-> <<"A part of you is asking for attention.">>,
               integration |->
                   <<"By pausing to notice your experience, you've already begun the work of integration.">>,
               shift |->
                   <<"Consider sitting with what came up. Sometimes the noticing itself is the healing.">>]]

\* process.ts:23-25
MethodNotAllowed == [status |-> 405, body |-> [type |-> "text", text |-> <<"Method not allowed">>]]

\* process.ts:109-152: the reply built from the third-party service's answer.
\* A fenced text is unwrapped by the regular expression only when the fence
\* is closed; an unclosed fence is left in the text, which then is not JSON.
UpstreamResponse(reply) ==
    IF reply.kind # "text" THEN GenericResponse
    ELSE IF reply.fence = "single" \/ ~reply.payload.parses THEN GenericResponse
    ELSE [status |-> 200, body |-> reply.payload.value]

\* every element can be read as an entry: e.depth (process.ts:46) and
\* e.question (process.ts:63) throw a TypeError on null
EntriesReadable(es) == \A i \in 1..Len(es) : es[i] # JsonNull

handler(reply) ==
    /\ apiRequest # NoRequest
    /\ apiResponse = NoResponse
    /\ IF apiRequest.method # "POST"
       THEN /\ apiResponse' = MethodNotAllowed
            /\ UNCHANGED apiEntries
       ELSE IF ~apiRequest.body.parses \/ apiRequest.body.value.type # "object"
       THEN /\ apiResponse' = GenericResponse
            /\ UNCHANGED apiEntries
       ELSE /\ apiEntries' = normalizedEntries(apiRequest.body.value)
            /\ apiResponse' = IF ~EntriesReadable(apiEntries')
                              THEN GenericResponse
                              ELSE IF ~apiRequest.CLAUDE_API_KEY
                              THEN DemoResponse(apiEntries')
                              ELSE UpstreamResponse(reply)
    /\ lastOp' = "handler"
    /\ UNCHANGED <<screen, entries, currentAnswer, currentQuestionIndex, depth, output,
                   transcript, isListening, speechError, prefixText, engine, requests,
                   staleSession, results, apiRequest>>

\* one request reaches the endpoint; the component is not involved
InitApi ==
    /\ screen = "welcome"
    /\ entries = <<>>
    /\ currentAnswer = Empty
    /\ currentQuestionIndex = 0
    /\ depth = 0
    /\ output = JsonNull
    /\ transcript = Empty
    /\ isListening = FALSE
    /\ speechError = "none"
    /\ prefixText = Empty
    /\ engine = "idle"
    /\ requests = <<>>
    /\ lastOp = "init"
    /\ staleSession = FALSE
    /\ results = <<>>
    /\ apiRequest \in ApiRequests
    /\ apiEntries = <<>>
    /\ apiResponse = NoResponse

NextApi == \E reply \in UpstreamReplies : handler(reply)

SpecApi == InitApi /\ [][NextApi]_vars

(***************************************************************************)
(* Properties.                                                             *)
(***************************************************************************)
AdvanceOps == {"handleNext", "handleGoDeeper"}

\* a step of Advance / Go deeper that committed an entry
AdvanceCommitted == lastOp' \in AdvanceOps /\ Len(entries') = Len(entries) + 1

\* C1: at depth 0 the current question is INITIAL_QUESTIONS[questionIndex] with
\* questionIndex in 0..2; each successful Advance at depth 0 moves questionIndex
\* one step (0, 1, 2 in order), and the one on questionIndex = 2 sets depth = 1
\* and questionIndex = 0.
C1_InitialQuestionsInOrder ==
    [][ /\ depth' = 0 =>
             /\ currentQuestionIndex' \in 0..2
             /\ getCurrentQuestion' = INITIAL_QUESTIONS[currentQuestionIndex' + 1]
        /\ (AdvanceCommitted /\ depth = 0 /\ currentQuestionIndex < 2) =>
             /\ depth' = 0
             /\ currentQuestionIndex' = currentQuestionIndex + 1
             /\ entries'[Len(entries')].question = INITIAL_QUESTIONS[currentQuestionIndex + 1]
        /\ (AdvanceCommitted /\ depth = 0 /\ currentQuestionIndex = 2) =>
             /\ depth' = 1
             /\ currentQuestionIndex' = 0
             /\ entries'[Len(entries')].question = INITIAL_QUESTIONS[3]
        /\ (depth = 0 /\ depth' = 0 /\ currentQuestionIndex' # currentQuestionIndex) =>
             \/ AdvanceCommitted
             \/ lastOp' \in {"handleStart", "handleReset"} /\ currentQuestionIndex' = 0
      ]_vars

C1_Witness ==
    /\ lastOp \in AdvanceOps
    /\ screen = "inquiry"
    /\ depth = 1
    /\ currentQuestionIndex = 0
    /\ Len(entries) = 3

\* C2: no entry of entries, and no entry of a sequence handed to the
\* summarization request, has an answer that is empty after trimming.
C2_NoEmptyAnswer ==
    /\ \A i \in 1..Len(entries) : Trim(entries[i].answer) # Empty
    /\ \A r \in 1..Len(requests) :
         \A i \in 1..Len(requests[r].entriesToProcess) :
             Trim(requests[r].entriesToProcess[i].answer) # Empty

\* Complete was invoked on a whitespace-only buffer after two commits
C2_Witness ==
    /\ lastOp = "handleComplete"
    /\ currentAnswer = <<" ">>
    /\ Len(requests) = 1
    /\ Len(requests[1].entriesToProcess) = 2

\* C3: Advance and Go deeper invoked while trim(currentAnswer) is empty leave
\* entries, questionIndex, depth, currentAnswer and screen unchanged.
C3_BlankAnswerBlocks ==
    [][ (lastOp' \in AdvanceOps /\ Trim(currentAnswer) = Empty) => UNCHANGED flowVars ]_vars

\* Advance ran last, on a whitespace-only buffer, and the buffer is still there
C3_Witness ==
    /\ lastOp \in AdvanceOps
    /\ currentAnswer = <<" ">>
    /\ screen = "inquiry"
    /\ Len(entries) = 1

ClearedBuffer == currentAnswer # Empty /\ currentAnswer' = Empty

\* C4 as stated: every operation that commits an entry (Advance, Go deeper,
\* Complete) and every start / reset leaves currentAnswer empty, and the
\* controller clears it in no other transition.
C4_ClearedExactlyOnCommitOrReset ==
    [][ /\ Len(entries') = Len(entries) + 1 => currentAnswer' = Empty
        /\ lastOp' \in {"handleStart", "handleReset"} => currentAnswer' = Empty
        /\ ClearedBuffer =>
             \/ Len(entries') = Len(entries) + 1
             \/ lastOp' \in {"handleStart", "handleReset", "onChange"}
      ]_vars

\* C4 amended: Advance and Go deeper, when they commit, and start and reset
\* leave currentAnswer empty; Complete leaves currentAnswer as it was, also
\* when it commits it; apart from the user's own typing, no other transition
\* clears the buffer.
C4_ClearedOnAdvanceOrReset ==
    [][ /\ AdvanceCommitted => currentAnswer' = Empty
        /\ lastOp' \in {"handleStart", "handleReset"} => currentAnswer' = Empty
        /\ lastOp' = "handleComplete" => currentAnswer' = currentAnswer
        /\ ClearedBuffer =>
             \/ AdvanceCommitted
             \/ lastOp' \in {"handleStart", "handleReset", "onChange"}
      ]_vars

\* Complete committed the buffer and the buffer is still there
C4_Witness ==
    /\ lastOp = "handleComplete"
    /\ Trim(currentAnswer) # Empty
    /\ Len(entries) = 3
    /\ entries[3].answer = Trim(currentAnswer)

\* the sequence handed to the request that Complete has just issued
Submitted == requests'[Len(requests')].entriesToProcess

\* C5 as stated: Complete submits entries followed by one extra entry
\* {current question, trim(currentAnswer), current depth} if and only if
\* currentAnswer is non-empty, else entries unchanged; the screen becomes
\* Processing.
C5_CompleteSubmitsNonEmptyBuffer ==
    [][ lastOp' = "handleComplete" =>
          /\ Len(requests') = Len(requests) + 1
          /\ Submitted =
                IF currentAnswer # Empty
                THEN entries \o <<Entry(getCurrentQuestion, Trim(currentAnswer), depth)>>
                ELSE entries
          /\ screen' = "processing"
      ]_vars

\* C5 amended: the extra entry is appended if and only if trim(currentAnswer)
\* is non-empty; an empty or whitespace-only buffer is omitted and the
\* submitted sequence equals entries; the screen becomes Processing.
C5_CompleteSubmitsTrimmedBuffer ==
    [][ lastOp' = "handleComplete" =>
          /\ Len(requests') = Len(requests) + 1
          /\ Submitted =
                IF Trim(currentAnswer) # Empty
                THEN entries \o <<Entry(getCurrentQuestion, Trim(currentAnswer), depth)>>
                ELSE entries
          /\ entries' = Submitted
          /\ screen' = "processing"
      ]_vars

\* Complete appended a buffer that needed trimming to three committed entries
C5_Witness ==
    /\ lastOp = "handleComplete"
    /\ Len(requests) = 1
    /\ Len(requests[1].entriesToProcess) = 4
    /\ currentAnswer # Trim(currentAnswer)
    /\ requests[1].entriesToProcess[4].answer = Trim(currentAnswer)
    /\ screen = "processing"

(***************************************************************************)
(* Submission outcomes.                                                    *)
(***************************************************************************)
ExpectedFields == {"coreFeeling", "bodyWisdom", "underlyingNeed", "integration", "shift"}

\* the body parses to an object holding the five expected fields
Decomposable(b) ==
    b.parses /\ b.value.type = "object" /\ ExpectedFields \subseteq DOMAIN b.value

\* the handlers that publish the fallback
FallbackOps == {"fetchRejected", "fetchNotOk", "jsonRejected"}

\* C6: every submission failure (the request rejects, the status is not a
\* success, or the body is not decomposable into the five expected fields)
\* publishes the fallback result computed from the submitted entries.
\* Stated for the submissions the buttons offer, which hold the three initial
\* answers at least.
C6_FailureTriggersFallback ==
    [][ \A i \in 1..Len(requests) :
          ( /\ requests' = RemoveAt(requests, i)
            /\ Len(requests[i].entriesToProcess) >= 3
            /\ \/ lastOp' \in {"fetchRejected", "fetchNotOk"}
               \/ lastOp' \in {"jsonRejected", "jsonParsed"}
                  /\ requests[i].stage = "json"
                  /\ ~Decomposable(requests[i].body) )
          => /\ output' = Fallback(requests[i].entriesToProcess)
             /\ screen' = "output"
      ]_vars

\* C7: a submission that settles ends on the Output screen with a result
\* present; the flow is never on the Output screen with no result.  Stated
\* for the submissions the buttons offer, which hold the three initial
\* answers at least.
C7_OutputScreenHasResult ==
    (screen = "output" /\ Len(entries) >= 3) => (requests = <<>> /\ Truthy(output))

\* C8: each completion issues exactly one request; at no time are two
\* requests outstanding, and a request is issued only by Complete invoked on
\* the Inquiry screen with none outstanding.
C8_OneRequestPerCompletion ==
    [][ /\ Len(requests') <= 1
        /\ lastOp' = "handleComplete" =>
             /\ requests = <<>>
             /\ Len(requests') = 1
             /\ requests'[1].entriesToProcess = entries'
        /\ Len(requests') > Len(requests) =>
             /\ lastOp' = "handleComplete"
             /\ screen = "inquiry"
             /\ screen' = "processing"
        /\ (screen = "processing" /\ screen' = "processing") => Len(requests') = 1
      ]_vars

\* a request is outstanding after Complete
C8_Witness ==
    /\ lastOp = "handleComplete"
    /\ screen = "processing"
    /\ Len(requests) = 1
    /\ requests[1].stage = "fetch"
    /\ Len(entries) = 3

\* the positions of the entries of es with depth 0, and with depth > 0
InitialAt(es) == {i \in 1..Len(es) : es[i].depth = 0}
DeeperAt(es) == {i \in 1..Len(es) : es[i].depth > 0}

\* the answer of the k-th entry (in sequence order) among positions,
\* or placeholder when there is none
KthAnswer(es, positions, k, placeholder) ==
    LET at == {i \in positions : Cardinality({j \in positions : j <= i}) = k}
    IN  IF at = {} THEN placeholder ELSE es[CHOOSE i \in at : TRUE].answer

LastDeeperAnswer(es) ==
    es[CHOOSE i \in DeeperAt(es) : \A j \in DeeperAt(es) : j <= i].answer

\* primary and secondary field of the fallback, as C9 states them
PrimaryAndSecondary(es) ==
    /\ output.coreFeeling = KthAnswer(es, InitialAt(es), 1, <<"Something important surfaced.">>)
    /\ output.bodyWisdom = KthAnswer(es, InitialAt(es), 2, <<"Your body is holding this.">>)

\* C9 as stated: the fallback has primary = answer of the first depth-0
\* entry, secondary = answer of the second, tertiary = the last deeper entry's
\* answer if there is one, else the third depth-0 entry's answer; an absent
\* source gives the generic placeholder.
C9_FallbackFields ==
    lastOp \in FallbackOps =>
        /\ PrimaryAndSecondary(entries)
        /\ output.underlyingNeed =
              IF DeeperAt(entries) # {}
              THEN LastDeeperAnswer(entries)
              ELSE KthAnswer(entries, InitialAt(entries), 3, <<"A need for presence.">>)

\* C9 amended: as stated, except that with a deeper entry the tertiary field
\* is the fixed text "Beneath the surface: " followed by the last deeper
\* entry's answer.
C9_FallbackFieldsTemplate ==
    lastOp \in FallbackOps =>
        /\ PrimaryAndSecondary(entries)
        /\ output.underlyingNeed =
              IF DeeperAt(entries) # {}
              THEN <<"Beneath the surface: ">> \o LastDeeperAnswer(entries)
              ELSE KthAnswer(entries, InitialAt(entries), 3, <<"A need for presence.">>)

\* the fallback was published for two deeper entries with different answers
C9_Witness ==
    /\ lastOp \in FallbackOps
    /\ Len(entries) = 5
    /\ entries[4].depth > 0
    /\ entries[4].answer # entries[5].answer
    /\ output.underlyingNeed = <<"Beneath the surface: ">> \o entries[5].answer

\* the fallback was published for an empty entries sequence
C9_WitnessEmpty ==
    /\ lastOp \in FallbackOps
    /\ entries = <<>>
    /\ output.coreFeeling = <<"Something important surfaced.">>

\* C10: the fallback's integration text is the fixed template over
\* entries.length, the shift text is 'moved deeper' exactly when a submitted
\* entry has depth > 0 and 'consider returning' exactly when none has.
C10_NarrativeFields ==
    lastOp \in FallbackOps =>
        /\ output.integration[2] = ToString(Len(entries))
        /\ output.shift = MovedDeeper <=> DeeperAt(entries) # {}
        /\ output.shift = ConsiderReturning <=> DeeperAt(entries) = {}

\* the fallback chose the 'moved deeper' text
C10_Witness ==
    /\ lastOp \in FallbackOps
    /\ output.shift = MovedDeeper
    /\ Len(entries) = 4

\* C11: depth is non-decreasing across one inquiry session: no Advance, Go
\* deeper, Complete, typed input, recognition event or submission result
\* lowers depth; the only step that lowers it is the reset that ends the session.
C11_DepthNonDecreasing ==
    [][depth' < depth => lastOp' = "handleReset"]_vars

\* an Advance at depth 1 committed a second deeper entry and depth stayed 1
C11_Witness ==
    /\ lastOp \in AdvanceOps
    /\ depth = 1
    /\ Len(entries) = 5
    /\ entries[5].depth = 1

\* C12: a reset yields the Welcome screen with entries empty, question index
\* 0, depth 0, the answer buffer empty, the output cleared and the hook's
\* transcript (with its prefix) reset; a start yields the Inquiry screen with
\* entries empty, question index 0, depth 0 and the answer buffer empty.
C12_ResetAndStartClear ==
    [][ /\ lastOp' = "handleReset" =>
              /\ screen' = "welcome"
              /\ entries' = <<>>
              /\ currentQuestionIndex' = 0
              /\ depth' = 0
              /\ currentAnswer' = Empty
              /\ output' = JsonNull
              /\ transcript' = Empty
              /\ prefixText' = Empty
        /\ lastOp' = "handleStart" =>
              /\ screen' = "inquiry"
              /\ entries' = <<>>
              /\ currentQuestionIndex' = 0
              /\ depth' = 0
              /\ currentAnswer' = Empty
      ]_vars

\* a reset ran on an output screen whose recognition session had not ended,
\* and the next session was started while that engine was still stopping
C12_Witness ==
    /\ lastOp = "handleStart"
    /\ engine = "stopping"
    /\ screen = "inquiry"
    /\ entries = <<>>
    /\ currentAnswer = Empty

\* C13: when the summarization request succeeds (success status and a
\* parseable JSON body), the output is exactly the value parsed from the
\* response, unmodified, with no fallback value mixed in.
C13_SuccessPublishedVerbatim ==
    [][lastOp' = "jsonParsed" =>
          /\ Len(requests) = 1
          /\ requests[1].stage = "json"
          /\ requests[1].body.parses
          /\ output' = requests[1].body.value
          /\ screen' = "output"
      ]_vars

\* a five-field response was published for a submission with a deeper entry,
\* for which the fallback would have produced different texts
C13_Witness ==
    /\ lastOp = "jsonParsed"
    /\ output = FullResult
    /\ Len(entries) = 4
    /\ output # Fallback(entries)

\* the words of a text
WordCount(t) == Cardinality({ i \in DOMAIN t : t[i] # " " })

\* C14: after each recognition event of a session the published transcript is
\* trim(prefixText + separator + all final segments + the interim text),
\* computed from the list the event delivered alone: it holds the prefix's
\* words and one word per hypothesis of that list, no more and no fewer, and
\* a second event with the same list publishes the same transcript.
C14_TranscriptFromLatestList ==
    [][lastOp' = "onresult" =>
          /\ transcript' = Trim(prefixText
                                \o Separator(prefixText, SessionFinalText(results'),
                                             InterimText(results'))
                                \o SessionFinalText(results') \o InterimText(results'))
          /\ WordCount(transcript') = WordCount(prefixText) + Len(results')
          /\ (lastOp = "onresult" /\ results' = results) => transcript' = transcript
      ]_vars

\* a session started on the text "a" received a final segment "a"
C14_Witness ==
    /\ lastOp = "onresult"
    /\ prefixText = <<"a">>
    /\ results = << Hyp(<<"a">>, TRUE) >>
    /\ transcript = <<"a", " ", "a">>

\* the interim entry of an earlier event came back final, followed by a new
\* interim entry, in a session without prefix
C14_WitnessRevised ==
    /\ lastOp = "onresult"
    /\ prefixText = Empty
    /\ Len(results) = 2
    /\ transcript = <<"a", " ", "a">>

\* p is an initial part of t
IsPrefix(p, t) == Len(p) <= Len(t) /\ SubSeq(t, 1, Len(p)) = p

\* C15: when the engine reports an error during a session started with
\* non-empty text P, the error code is published, listening becomes false,
\* and P is not lost: the published transcript still begins with P and the
\* error changes neither the transcript nor the answer buffer.
C15_ErrorKeepsPrefix ==
    [][(lastOp' = "onerror" /\ prefixText # Empty) =>
          /\ speechError' \in ErrorCodes
          /\ isListening' = FALSE
          /\ prefixText' = prefixText
          /\ IsPrefix(prefixText, transcript')
          /\ transcript' = transcript
          /\ currentAnswer' = currentAnswer
      ]_vars

\* an error ended a session that was started on the answer "a"; the
\* transcript and the answer buffer still hold it
C15_Witness ==
    /\ lastOp = "onerror"
    /\ speechError = "not-allowed"
    /\ ~isListening
    /\ prefixText = <<"a">>
    /\ IsPrefix(prefixText, transcript)
    /\ IsPrefix(prefixText, currentAnswer)

\* C17 as stated: whenever the deepening choice is offered and the buffer is
\* non-empty, Go deeper appends one entry for the current question,
\* increments the question index by one and leaves depth unchanged.
C17_GoDeeperIncrementsIndex ==
    [][(lastOp' = "handleGoDeeper" /\ DeeperChoiceOffered) =>
          /\ entries' = Append(entries, Entry(getCurrentQuestion, Trim(currentAnswer), depth))
          /\ currentQuestionIndex' = currentQuestionIndex + 1
          /\ depth' = depth
      ]_vars

\* what Advance does when the deepening choice is offered
AdvanceEffectWhenOffered ==
    /\ entries' = Append(entries, Entry(getCurrentQuestion, Trim(currentAnswer), depth))
    /\ IF depth >= 1
       THEN currentQuestionIndex' = currentQuestionIndex + 1 /\ depth' = depth
       ELSE currentQuestionIndex' = 0 /\ depth' = 1
    /\ currentAnswer' = Empty
    /\ screen' = screen

\* C17 amended: whenever the deepening choice is offered and the buffer is
\* non-empty, Go deeper has exactly the effect of Advance: both append one
\* entry for the current question and clear the buffer; at depth >= 1 they
\* increment the question index and keep depth, and on the last initial
\* question (depth 0) they set depth to 1 and the question index to 0.
C17_GoDeeperIsAdvance ==
    [][(lastOp' \in AdvanceOps /\ DeeperChoiceOffered) => AdvanceEffectWhenOffered]_vars

\* Go deeper was chosen on the last initial question
C17_Witness ==
    /\ lastOp = "handleGoDeeper"
    /\ Len(entries) = 3
    /\ depth = 1
    /\ currentQuestionIndex = 0

\* Go deeper was chosen at depth 1
C17_WitnessInPool ==
    /\ lastOp = "handleGoDeeper"
    /\ Len(entries) = 4
    /\ depth = 1
    /\ currentQuestionIndex = 1

SettleOps == FallbackOps \cup {"jsonParsed"}

\* the flow state as start and reset leave it
FlowCleared ==
    /\ entries = <<>>
    /\ currentQuestionIndex = 0
    /\ depth = 0
    /\ currentAnswer = Empty
    /\ output = JsonNull

\* C18: the screen changes only along Welcome -> Inquiry (start), Inquiry ->
\* Processing (Complete), Processing -> Output (response or fallback) and
\* any screen -> Welcome (reset); Output is entered only from Processing, and
\* on the Welcome screen the flow state is cleared, no response is
\* outstanding, and every step other than start leaves the screen on Welcome.
C18_ScreenEdges ==
    [][ /\ screen' # screen =>
              \/ screen = "welcome" /\ screen' = "inquiry" /\ lastOp' = "handleStart"
              \/ screen = "inquiry" /\ screen' = "processing" /\ lastOp' = "handleComplete"
              \/ screen = "processing" /\ screen' = "output" /\ lastOp' \in SettleOps
              \/ screen' = "welcome" /\ lastOp' = "handleReset"
        /\ screen = "welcome" => FlowCleared /\ requests = <<>>
        /\ (screen = "welcome" /\ lastOp' # "handleStart") => screen' = "welcome"
      ]_vars

\* after a reset, an event of the recognition session begun before it arrived
\* on the Welcome screen
C18_Witness ==
    /\ screen = "welcome"
    /\ lastOp \in {"onresult", "onend"}
    /\ FlowCleared

EngineEvents == {"onresult", "onerror", "onend"}

\* C19: after Advance or Go deeper has committed an answer, an event of the
\* recognition session that was stopped by that commit (result, error or
\* end, delivered after stop and resetTranscript) never writes into the
\* answer buffer of the new question.
C19_LateEventsLeaveBuffer ==
    [][(staleSession /\ screen = "inquiry" /\ Len(entries) >= 1 /\ lastOp' \in EngineEvents)
          => currentAnswer' = currentAnswer
      ]_vars

\* the shape of a submission: three depth-0 entries for the initial questions
\* in order, then entries of depth >= 1; the k-th of them (k = 0, 1, ...) was
\* committed at question index k and asks the pool question (k + depth) mod
\* poolSize
WellFormedSubmission(es) ==
    /\ Len(es) >= Len(INITIAL_QUESTIONS)
    /\ \A i \in 1..Len(INITIAL_QUESTIONS) :
          es[i].depth = 0 /\ es[i].question = INITIAL_QUESTIONS[i]
    /\ \A i \in (Len(INITIAL_QUESTIONS) + 1)..Len(es) :
          /\ es[i].depth >= 1
          /\ es[i].question =
                DEEPENING_QUESTIONS[(((i - Len(INITIAL_QUESTIONS) - 1) + es[i].depth)
                                       % Len(DEEPENING_QUESTIONS)) + 1]
    /\ Len(es) > Len(INITIAL_QUESTIONS) <=> (\E i \in 1..Len(es) : es[i].depth >= 1)

\* C20: every entries sequence that reaches the summarization request
\* through the offered buttons consists of exactly three depth-0 entries for
\* the three initial questions in order, followed by zero or more entries of
\* depth >= 1 for the deepening-pool questions selected by (questionIndex +
\* depth) mod poolSize; so it never has fewer than three entries and is
\* longer than three exactly when it holds a deeper entry.
C20_SubmissionShape ==
    \A i \in 1..Len(requests) : WellFormedSubmission(requests[i].entriesToProcess)

\* a submission with two deeper entries is outstanding
C20_Witness ==
    /\ Len(requests) = 1
    /\ Len(requests[1].entriesToProcess) = 5
    /\ requests[1].entriesToProcess[5].question = DEEPENING_QUESTIONS[3]

\* a submission made on the last initial question is outstanding
C20_WitnessThree ==
    /\ Len(requests) = 1
    /\ Len(requests[1].entriesToProcess) = 3

\* one depth-0 entry for a legacy member that is present and non-empty
LegacyEntryFor(question, v) ==
    IF v.present /\ v.text # Empty THEN << Entry(question, v.text, 0) >> ELSE <<>>

\* the endpoint has normalized the body of a POST request
Normalized ==
    /\ lastOp = "handler"
    /\ apiRequest.method = "POST"
    /\ apiRequest.body.parses
    /\ apiRequest.body.value.type = "object"

\* C16: the endpoint turns a legacy flat body into entries: in the order
\* feel / where / needs, one depth-0 entry for each legacy member that is
\* present and non-empty and none for a missing or empty member; the legacy
\* members are used only when the body's entries list is absent or empty.
C16_LegacyNormalized ==
    Normalized =>
        LET b == apiRequest.body.value
        IN  IF b.entries.present /\ b.entries.list # <<>>
            THEN apiEntries = b.entries.list
            ELSE apiEntries =
                    LegacyEntryFor(<<"What do you feel?">>, b.whatYouFeel)
                    \o LegacyEntryFor(<<"Where do you feel it?">>, b.whereYouFeelIt)
                    \o LegacyEntryFor(<<"What does it need?">>, b.whatItNeeds)

\* a legacy body with a word for feel and needs and an empty where member
\* was normalized into two entries, and the reply without credential counts two
C16_Witness ==
    /\ Normalized
    /\ ~apiRequest.body.value.entries.present
    /\ apiRequest.body.value.whereYouFeelIt = Given(Empty)
    /\ ~apiRequest.CLAUDE_API_KEY
    /\ Len(apiEntries) = 2
    /\ apiEntries[1].answer = <<"f">>
    /\ apiEntries[2].answer = <<"n">>
    /\ apiEntries[2].question = <<"What does it need?">>
    /\ apiResponse.body.integration[2] = "2"

\* the request body cannot be processed: it is not JSON, not an object, or
\* its entries hold an element that is not an entry
BodyUnusable ==
    \/ ~apiRequest.body.parses
    \/ apiRequest.body.value.type # "object"
    \/ ~EntriesReadable(apiEntries)

\* a reply body that is JSON
IsJson(v) == v.type \in {"object", "null"}

\* C21: every POST request, whatever its body, with or without credential,
\* and whether the third-party service fails or replies with text that is
\* not JSON, is answered with status 200 and a JSON body, which is the
\* generic five-field content whenever the body cannot be processed; only a
\* request that is not POST gets another status, 405.
C21_PostAlwaysSucceeds ==
    lastOp = "handler" =>
        /\ apiRequest.method = "POST" =>
              /\ apiResponse.status = 200
              /\ IsJson(apiResponse.body)
              /\ BodyUnusable => apiResponse = GenericResponse
              /\ (~BodyUnusable /\ ~apiRequest.CLAUDE_API_KEY) =>
                    /\ apiResponse.body.type = "object"
                    /\ apiResponse # GenericResponse
        /\ apiRequest.method # "POST" => apiResponse.status = 405
        /\ apiResponse.status # 200 => apiRequest.method # "POST"

\* a POST with a usable body and a credential got the generic content: the
\* call to the third-party service failed or its text was not JSON
C21_Witness ==
    /\ lastOp = "handler"
    /\ apiRequest.method = "POST"
    /\ apiRequest.CLAUDE_API_KEY
    /\ ~BodyUnusable
    /\ apiResponse = GenericResponse

\* a POST whose entries are [null] got the generic content
C21_WitnessNullEntry ==
    /\ lastOp = "handler"
    /\ apiRequest.method = "POST"
    /\ apiEntries = << JsonNull >>
    /\ apiResponse = GenericResponse

\* a GET got 405
C21_WitnessGet ==
    /\ lastOp = "handler"
    /\ apiRequest.method = "GET"
    /\ apiResponse = MethodNotAllowed

\* C22: in every reachable state depth is 0 or 1: Go deeper, however often
\* it is chosen, never raises depth above 1, so every deepening entry is
\* recorded with depth exactly 1 and the k-th deepening entry (k = 0, 1, ...)
\* asks the pool question (k + 1) mod poolSize.
C22_DepthAtMostOne ==
    /\ depth \in {0, 1}
    /\ \A i \in 1..Len(entries) :
          IF i <= Len(INITIAL_QUESTIONS)
          THEN entries[i].depth = 0
          ELSE /\ entries[i].depth = 1
               /\ entries[i].question =
                     DEEPENING_QUESTIONS[(((i - Len(INITIAL_QUESTIONS) - 1) + 1)
                                            % Len(DEEPENING_QUESTIONS)) + 1]

\* Go deeper was chosen twice in the pool; both entries have depth 1 and ask
\* the second and third pool question
C22_Witness ==
    /\ lastOp = "handleGoDeeper"
    /\ depth = 1
    /\ currentQuestionIndex = 2
    /\ Len(entries) = 5
    /\ entries[4].question = DEEPENING_QUESTIONS[2]
    /\ entries[5].question = DEEPENING_QUESTIONS[3]

====
